---- MODULE Spec2Model ----
(***************************************************************************)
(* Model of scanserv-rs: the scan job lifecycle (src/src/schema.rs,        *)
(* src/src/scanners.rs, src/src/scans.rs) and the schema migration runner  *)
(* (src/src/migrations.rs).                                                *)
(*                                                                         *)
(* The server runs on the multi-threaded tokio runtime (main.rs:40), so    *)
(* GraphQL handlers and spawned scan tasks interleave between any two      *)
(* database statements: every handler that loads a row and saves it later  *)
(* is modelled as one action per database statement.                       *)
(***************************************************************************)
EXTENDS Integers, Sequences, FiniteSets, TLC

VARIABLES
    scans,        \* table scans: sequence of rows, the row id is the index
    scan_groups,  \* ids of the rows of table scan_groups
    files,        \* relative paths of the files existing under the assets dir
    tasks,        \* background tasks started with tokio::spawn, in spawn order
    reqs,         \* mutation handlers that are between two database statements
    response,     \* what the mutation handler that ended last gave its caller
    allocated,    \* history: per scan id, the paths complete_scan has saved
    meta_rows,    \* table meta_migration_schema: the next_migration_idx of its rows
    applied,      \* the indices of the migrations executed on the store, in order
    backups,      \* per index k, the copy of the store in "<db>.pre-<k>-backup"
    mig_pc,       \* where the process is in migrate; "off": no process runs
    mig_idx,      \* migrate's idx + next_migration_idx
    faults,       \* crashes and failed reads so far
    run_backups,  \* history: the indices backed up by the running migrate
    cached,       \* ScannerManager: the cached device list
    last_refreshed, \* ScannerManager: the instant of the last refresh, in seconds
    now,          \* the clock, in seconds since the start of the process
    calls,        \* per caller, the catalog call it is in and what that has read
    refreshes,    \* history: the invocations of the device-listing command so far
    cached_gen,   \* history: the invocation whose list is in cached
    ts_gen,       \* history: the invocation whose end is in last_refreshed
    asset,        \* AssetPath: the relative path self.0, a sequence of characters
    disk,         \* the relative paths that exist under the assets dir of the call
    path_pc,      \* where the call of a method of AssetPath is
    path_locals,  \* get_next_available_path: dir_part, first_part, extension
    path_counter, \* get_next_available_path: the local counter
    next_path     \* the AssetPath the call has returned, if it has

jobVars == <<scans, scan_groups, files, tasks, reqs, response, allocated>>

migVars == <<meta_rows, applied, backups, mig_pc, mig_idx, faults, run_backups>>

devVars == <<cached, last_refreshed, now, calls, refreshes, cached_gen, ts_gen>>

pathVars == <<asset, disk, path_pc, path_locals, path_counter, next_path>>

\* what the handlers and tasks of the job lifecycle leave alone
notJob == <<migVars, devVars, pathVars>>

\* what migrate leaves alone
notMig == <<jobVars, devVars, pathVars>>

\* what the device catalog leaves alone
notDev == <<jobVars, migVars, pathVars>>

\* what the methods of AssetPath leave alone
notPath == <<jobVars, migVars, devVars>>

vars == <<jobVars, migVars, devVars, pathVars>>

(***************************************************************************)
(* Bounds of the model.                                                    *)
(***************************************************************************)
MaxScans == 2    \* rows inserted into scans
MaxTasks == 2    \* background tasks spawned in one behaviour
MaxReqs == 1     \* scan and retry_scan handlers in flight at the same time
MaxMetaReqs == 1 \* rotate_scan and crop_scan handlers in flight at the same time
MaxGroups == 1   \* rows inserted into scan_groups

(***************************************************************************)
(* Values.                                                                 *)
(***************************************************************************)
None == <<>>
Some(v) == <<v>>
Unwrap(o) == o[1]

\* no method of AssetPath has been called
PathIdle ==
    /\ asset = <<>>
    /\ disk = {}
    /\ path_pc = "idle"
    /\ path_locals = None
    /\ path_counter = 0
    /\ next_path = None

\* do_scan gives up after this many invocations of the driver
MaxAttempts == 3

\* exit codes of the driver that the model draws from
ExitCodes == {0, 1}
\* what one invocation of the driver can end in: an exit code, a failure to
\* spawn the process, or a termination by a signal (no exit code)
Outcomes == {[kind |-> "exit", code |-> c] : c \in ExitCodes}
            \cup {[kind |-> "spawn_error", code |-> 0], [kind |-> "no_code", code |-> 0]}

\* A relative asset path "<dir>/<stem>.<ext>"; the stem is the sequence of
\* its '_'-separated components, so "scans/tmp_1.png" has stem <<"tmp", "1">>.
RelPath(dir, stem, ext) == [dir |-> dir, stem |-> stem, ext |-> ext]

\* schema.rs:260-265  Path::new("scans").join("tmp.png")
PlaceholderPath == RelPath("scans", <<"tmp">>, "png")

\* scans.rs:118-140  Scan::new: note original_path: Some(asset_path)
ScanNew(status, path, scanner, scan_parameters) ==
    [id |-> None,
     status |-> status,
     path |-> path,
     scanner |-> scanner,
     scan_parameters |-> scan_parameters,
     group |-> None,
     rotation |-> 0,
     crop_coordinates |-> None,
     original_path |-> Some(path)]

\* the row of table scans that save writes for an in-memory Scan; the column
\* scan_group_id is not among the columns of the INSERT
RowOfInsert(scan) ==
    [status |-> scan.status,
     path |-> scan.path,
     scanner |-> scan.scanner,
     scan_parameters |-> scan.scan_parameters,
     scan_group_id |-> None,
     rotation |-> scan.rotation,
     crop_coordinates |-> scan.crop_coordinates,
     original_path |-> scan.original_path]

\* mutant: the UPDATE of save writes scan_group_id from the in-memory Scan
RowOfUpdateWithGroup(row, scan) ==
    [row EXCEPT !.status = scan.status,
                !.path = scan.path,
                !.scanner = scan.scanner,
                !.scan_parameters = scan.scan_parameters,
                !.scan_group_id = scan.group,
                !.rotation = scan.rotation,
                !.crop_coordinates = scan.crop_coordinates,
                !.original_path = scan.original_path]

\* scans.rs:185-209  the UPDATE of save: every column but scan_group_id
RowOfUpdate(row, scan) ==
    [row EXCEPT !.status = scan.status,
                !.path = scan.path,
                !.scanner = scan.scanner,
                !.scan_parameters = scan.scan_parameters,
                !.rotation = scan.rotation,
                !.crop_coordinates = scan.crop_coordinates,
                !.original_path = scan.original_path]

\* mutant: the save of a Scan that has an id inserts a row
SaveExistingInserts(table, scan) == Append(table, RowOfInsert(scan))

\* scans.rs:176-244  Scan::save on a Scan that has an id; an UPDATE of a
\* missing row changes nothing
SaveExisting(table, scan) ==
    LET id == Unwrap(scan.id) IN
    IF id \in 1..Len(table)
    THEN [table EXCEPT ![id] = RowOfUpdate(table[id], scan)]
    ELSE table

\* mutant: the INSERT is not executed
SaveNewLost(table, scan) == table

\* scans.rs:212-242  Scan::save on a Scan without id: INSERT ... RETURNING id
SaveNew(table, scan) == Append(table, RowOfInsert(scan))

\* scans.rs:142-174  Scan::load: Err when no row has the id, and Err when the
\* row's scan_group_id names no row of scan_groups (ScanGroup::load fails)
LoadOk(table, grps, id) ==
    /\ id \in 1..Len(table)
    /\ table[id].scan_group_id # None => Unwrap(table[id].scan_group_id) \in grps

Load(table, id) ==
    [id |-> Some(id),
     status |-> table[id].status,
     path |-> table[id].path,
     scanner |-> table[id].scanner,
     scan_parameters |-> table[id].scan_parameters,
     group |-> table[id].scan_group_id,
     rotation |-> table[id].rotation,
     crop_coordinates |-> table[id].crop_coordinates,
     original_path |-> table[id].original_path]

(***************************************************************************)
(* complete_scan: the allocation of the output path.                       *)
(***************************************************************************)
\* scanners.rs:124-134  the base name: the stem of original_path (the text of
\* the file name before the first '.') when original_path is set, else the id
BaseName(scan, scan_id) ==
    IF scan.original_path # None
    THEN Unwrap(scan.original_path).stem
    ELSE <<ToString(scan_id)>>

\* mutant: the first candidate has the suffix _1 already
CandidateFromOne(base_name, counter) ==
    RelPath("scans", Append(base_name, ToString(counter + 1)), "png")

\* scanners.rs:137-148  "<base>.png" for counter 0, else "<base>_<counter>.png",
\* joined to "scans"
Candidate(base_name, counter) ==
    IF counter = 0
    THEN RelPath("scans", base_name, "png")
    ELSE RelPath("scans", Append(base_name, ToString(counter)), "png")

\* scanners.rs:136-158  the loop: the first candidate that does not exist on disk
RECURSIVE FirstFree(_, _, _)
FirstFree(base_name, counter, existing) ==
    IF Candidate(base_name, counter) \notin existing
    THEN Candidate(base_name, counter)
    ELSE FirstFree(base_name, counter + 1, existing)

\* mutant: every allocation overwrites original_path
WithAllocatedPathAlways(scan, file_path) ==
    [scan EXCEPT !.original_path = Some(file_path), !.path = file_path]

\* scanners.rs:160-166  original_path is set only when it is unset; path always
WithAllocatedPath(scan, file_path) ==
    [scan EXCEPT !.original_path = IF scan.original_path = None
                                    THEN Some(file_path)
                                    ELSE scan.original_path,
                 !.path = file_path]

(***************************************************************************)
(* do_scan: the attempt loop and the final status.                         *)
(***************************************************************************)
\* mutant: the loop gives up one attempt early
LoopBreaksEarly(output_status, attempts) ==
    output_status = 0 \/ attempts >= MaxAttempts - 1

\* mutant: the loop does not look at the exit code
LoopBreaksOnCountOnly(output_status, attempts) ==
    attempts >= MaxAttempts

\* scanners.rs:368  if (output_status == 0) || (attempts >= 3) { break; }
LoopBreaks(output_status, attempts) ==
    output_status = 0 \/ attempts >= MaxAttempts

\* scanners.rs:375-379
FinalStatus(output_status) ==
    IF output_status # 0 THEN "FAILED" ELSE "COMPLETE"

\* scanners.rs:354-361  spawn().ok().unwrap() and status.code().unwrap(): only
\* an outcome with an exit code gets past the two unwraps
Unwraps(outcome) == outcome.kind = "exit"

\* a task as tokio::spawn creates it (schema.rs:288-298, 336-346), with the
\* scanner name and the parameters that it passes to complete_scan
NewTask(scan_id, by, name, parameters) ==
    [scan_id |-> scan_id, by |-> by, name |-> name, parameters |-> parameters,
     pc |-> "load", scan |-> None, attempts |-> 0, output_status |-> None]

\* a handler in flight
Req(op, scan_id, num, scan) ==
    [op |-> op, scan_id |-> scan_id, num |-> num, scan |-> scan]

Resp(op, result, id) == [op |-> op, result |-> result, id |-> id]

\* tasks that are or will be spawned count against MaxTasks
Spawning == {r \in reqs : r.op \in {"scan", "retry_scan"}}

(***************************************************************************)
(* Initial state of the job lifecycle: empty tables, empty assets dir.     *)
(***************************************************************************)
JobInit ==
    /\ scans = <<>>
    /\ scan_groups = {}
    /\ files = {}
    /\ tasks = <<>>
    /\ reqs = {}
    /\ response = Resp("none", "none", 0)
    /\ allocated = <<>>

(***************************************************************************)
(* MutationRoot::scan  (schema.rs:239-302)                                 *)
(***************************************************************************)
\* schema.rs:258-273  Scan::new with the placeholder path, save, id
ScanSave(name, parameters, group_id) ==
    /\ Len(scans) < MaxScans
    /\ Cardinality(Spawning) < MaxReqs
    /\ Len(tasks) + Cardinality(Spawning) < MaxTasks
    /\ LET scan == ScanNew("PENDING", PlaceholderPath, name, parameters)
           id == Len(scans) + 1
       IN /\ scans' = SaveNew(scans, scan)
          /\ allocated' = Append(allocated, {})
          /\ reqs' = reqs \cup {Req("scan", id, group_id, Some([scan EXCEPT !.id = Some(id)]))}
    /\ UNCHANGED <<notJob, scan_groups, files, tasks, response>>

\* scans.rs:246-265  set_group: the UPDATE runs first, then the group is loaded
SetGroup(table, id, group_id) ==
    [table EXCEPT ![id].scan_group_id = Some(group_id)]

\* schema.rs:275-301  set_group(..).unwrap() when a group id was given (0 stands
\* for no group id), tokio::spawn, return scan_id
ScanSpawn(r) ==
    /\ r \in reqs
    /\ r.op = "scan"
    /\ reqs' = reqs \ {r}
    /\ IF r.num # 0
       THEN /\ scans' = SetGroup(scans, r.scan_id, r.num)
            /\ IF r.num \in scan_groups
               THEN /\ tasks' = Append(tasks, NewTask(r.scan_id, "scan", Unwrap(r.scan).scanner,
                                                      Unwrap(r.scan).scan_parameters))
                    /\ response' = Resp("scan", "id", r.scan_id)
               ELSE /\ tasks' = tasks
                    /\ response' = Resp("scan", "panic", 0)
       ELSE /\ scans' = scans
            /\ tasks' = Append(tasks, NewTask(r.scan_id, "scan", Unwrap(r.scan).scanner,
                                                      Unwrap(r.scan).scan_parameters))
            /\ response' = Resp("scan", "id", r.scan_id)
    /\ UNCHANGED <<notJob, scan_groups, files, allocated>>

(***************************************************************************)
(* MutationRoot::retry_scan  (schema.rs:304-350)                           *)
(***************************************************************************)
\* schema.rs:320  Scan::load(scan_id, &pool).unwrap()
RetryLoad(scan_id) ==
    /\ Cardinality(Spawning) < MaxReqs
    /\ Len(tasks) + Cardinality(Spawning) < MaxTasks
    /\ IF LoadOk(scans, scan_groups, scan_id)
       THEN /\ reqs' = reqs \cup {Req("retry_scan", scan_id, 0, Some(Load(scans, scan_id)))}
            /\ response' = response
       ELSE /\ reqs' = reqs
            /\ response' = Resp("retry_scan", "panic", 0)
    /\ UNCHANGED <<notJob, scans, scan_groups, files, tasks, allocated>>

\* mutant: retry dispatches the task without saving the row
RetrySpawnOnly(r, name, parameters) ==
    /\ r \in reqs
    /\ r.op = "retry_scan"
    /\ reqs' = reqs \ {r}
    /\ tasks' = Append(tasks, NewTask(r.scan_id, "retry_scan", name, parameters))
    /\ response' = Resp("retry_scan", "id", r.scan_id)
    /\ UNCHANGED <<notJob, scans, scan_groups, files, allocated>>

\* schema.rs:323-349  status PENDING, the new scanner and parameters, save,
\* tokio::spawn, return scan_id
RetrySave(r, name, parameters) ==
    /\ r \in reqs
    /\ r.op = "retry_scan"
    /\ reqs' = reqs \ {r}
    /\ scans' = SaveExisting(scans, [Unwrap(r.scan) EXCEPT !.status = "PENDING",
                                                          !.scanner = name,
                                                          !.scan_parameters = parameters])
    /\ tasks' = Append(tasks, NewTask(r.scan_id, "retry_scan", name, parameters))
    /\ response' = Resp("retry_scan", "id", r.scan_id)
    /\ UNCHANGED <<notJob, scan_groups, files, allocated>>

(***************************************************************************)
(* RealScannerManager::complete_scan and do_scan, run by a spawned task    *)
(***************************************************************************)
\* scanners.rs:116  Scan::load(scan_id, pool).unwrap()
ExecLoad(t) ==
    /\ t \in 1..Len(tasks)
    /\ tasks[t].pc = "load"
    /\ tasks' = [tasks EXCEPT ![t] =
          IF LoadOk(scans, scan_groups, tasks[t].scan_id)
          THEN [@ EXCEPT !.pc = "allocate", !.scan = Some(Load(scans, tasks[t].scan_id))]
          ELSE [@ EXCEPT !.pc = "panicked"]]
    /\ UNCHANGED <<notJob, scans, scan_groups, files, reqs, response, allocated>>

\* scanners.rs:118-167  base name, the loop over the files on disk, save
ExecAllocate(t) ==
    /\ t \in 1..Len(tasks)
    /\ tasks[t].pc = "allocate"
    /\ LET scan == Unwrap(tasks[t].scan)
           file_path == FirstFree(BaseName(scan, tasks[t].scan_id), 0, files)
           saved == WithAllocatedPath(scan, file_path)
       IN /\ scans' = SaveExisting(scans, saved)
          /\ tasks' = [tasks EXCEPT ![t] = [@ EXCEPT !.pc = "scan", !.scan = Some(saved)]]
          /\ allocated' = [allocated EXCEPT ![tasks[t].scan_id] = @ \cup {file_path}]
    /\ UNCHANGED <<notJob, scan_groups, files, reqs, response>>

\* scanners.rs:332-373  one iteration of the loop: the driver is invoked with
\* -o scan_path; a driver that exits 0 has written the file
ExecAttempt(t, outcome) ==
    /\ t \in 1..Len(tasks)
    /\ tasks[t].pc = "scan"
    /\ LET attempts == tasks[t].attempts + 1 IN
       IF Unwraps(outcome)
       THEN /\ tasks' = [tasks EXCEPT ![t] =
                  [@ EXCEPT !.attempts = attempts,
                            !.output_status = Some(outcome.code),
                            !.pc = IF LoopBreaks(outcome.code, attempts)
                                   THEN "save" ELSE "scan"]]
            /\ files' = IF outcome.code = 0
                        THEN files \cup {Unwrap(tasks[t].scan).path}
                        ELSE files
       ELSE /\ tasks' = [tasks EXCEPT ![t] =
                  [@ EXCEPT !.attempts = attempts, !.pc = "panicked", !.scan = None]]
            /\ files' = files
    /\ UNCHANGED <<notJob, scans, scan_groups, reqs, response, allocated>>

\* scanners.rs:375-382  the final status, save
ExecFinalize(t) ==
    /\ t \in 1..Len(tasks)
    /\ tasks[t].pc = "save"
    /\ scans' = SaveExisting(scans,
          [Unwrap(tasks[t].scan) EXCEPT
              !.status = FinalStatus(Unwrap(tasks[t].output_status))])
    /\ tasks' = [tasks EXCEPT ![t] = [@ EXCEPT !.pc = "done", !.scan = None]]
    /\ UNCHANGED <<notJob, scan_groups, files, reqs, response, allocated>>

(***************************************************************************)
(* MockScannerManager (MOCK_SCANNER=true): its complete_scan loads and      *)
(* allocates as RealScannerManager's does (scanners.rs:202-259), then runs  *)
(* do_mock_scan instead of the driver.                                      *)
(***************************************************************************)
\* scanners.rs:18
MOCK_SCANNER_NAME == "mock:scanner"

\* scanners.rs:411-436  what writing the image can end in: the file is written
\* (a sample is copied, or an empty file is created); the samples directory
\* is empty and the failure of File::create is dropped by .ok(); the copy or
\* the creation fails and the error is kept
MockOutcomes ==
    {[written |-> TRUE, result_ok |-> TRUE],
     [written |-> FALSE, result_ok |-> TRUE],
     [written |-> FALSE, result_ok |-> FALSE]}

\* scanners.rs:438-442
MockStatus(result_ok) == IF result_ok THEN "COMPLETE" ELSE "FAILED"

\* scanners.rs:402-436  the image is written to scan.path; the task keeps the
\* result in output_status (0: Ok, 1: Err)
MockWrite(t, outcome) ==
    /\ t \in 1..Len(tasks)
    /\ tasks[t].pc = "scan"
    /\ tasks' = [tasks EXCEPT ![t] =
          [@ EXCEPT !.output_status = Some(IF outcome.result_ok THEN 0 ELSE 1),
                    !.pc = "save"]]
    /\ files' = IF outcome.written
                THEN files \cup {Unwrap(tasks[t].scan).path}
                ELSE files
    /\ UNCHANGED <<notJob, scans, scan_groups, reqs, response, allocated>>

\* scanners.rs:438-445  the final status, save
MockFinalize(t) ==
    /\ t \in 1..Len(tasks)
    /\ tasks[t].pc = "save"
    /\ scans' = SaveExisting(scans,
          [Unwrap(tasks[t].scan) EXCEPT
              !.status = MockStatus(Unwrap(tasks[t].output_status) = 0)])
    /\ tasks' = [tasks EXCEPT ![t] = [@ EXCEPT !.pc = "done", !.scan = None]]
    /\ UNCHANGED <<notJob, scan_groups, files, reqs, response, allocated>>

(***************************************************************************)
(* MutationRoot::rotate_scan and crop_scan  (schema.rs:474-515)            *)
(***************************************************************************)
\* the remainder of Rust's % on i32: it has the sign of the dividend
RustRem(a, b) == IF a >= 0 THEN a % b ELSE -((-a) % b)

\* schema.rs:480  (rotation % 360 + 360) % 360
NormalizedRotation(rotation) == RustRem(RustRem(rotation, 360) + 360, 360)

\* schema.rs:477, 500  Scan::load; Err(_) => false
MetaLoad(op, scan_id, num) ==
    /\ Cardinality(reqs \ Spawning) < MaxMetaReqs
    /\ IF LoadOk(scans, scan_groups, scan_id)
       THEN /\ reqs' = reqs \cup {Req(op, scan_id, num, Some(Load(scans, scan_id)))}
            /\ response' = response
       ELSE /\ reqs' = reqs
            /\ response' = Resp(op, "false", 0)
    /\ UNCHANGED <<notJob, scans, scan_groups, files, tasks, allocated>>

RotateLoad(scan_id, rotation) == MetaLoad("rotate_scan", scan_id, rotation)

\* schema.rs:480-483
RotateSave(r) ==
    /\ r \in reqs
    /\ r.op = "rotate_scan"
    /\ reqs' = reqs \ {r}
    /\ scans' = SaveExisting(scans,
          [Unwrap(r.scan) EXCEPT !.rotation = NormalizedRotation(r.num)])
    /\ response' = Resp("rotate_scan", "true", 0)
    /\ UNCHANGED <<notJob, scan_groups, files, tasks, allocated>>

\* the crop rectangles the model draws from, by number
CropRect(n) == [x |-> n, y |-> n, width |-> n, height |-> n]

CropLoad(scan_id, n) == MetaLoad("crop_scan", scan_id, n)

\* schema.rs:502-511  the rectangle is stored serialized
CropSave(r) ==
    /\ r \in reqs
    /\ r.op = "crop_scan"
    /\ reqs' = reqs \ {r}
    /\ scans' = SaveExisting(scans,
          [Unwrap(r.scan) EXCEPT !.crop_coordinates = Some(CropRect(r.num))])
    /\ response' = Resp("crop_scan", "true", 0)
    /\ UNCHANGED <<notJob, scan_groups, files, tasks, allocated>>

(***************************************************************************)
(* Groups  (schema.rs:362-367, 462-472; scans.rs:246-265)                  *)
(***************************************************************************)
\* schema.rs:362-367  create_group: the new row gets the next id
CreateGroup ==
    /\ Cardinality(scan_groups) < MaxGroups
    /\ scan_groups' = scan_groups \cup {Cardinality(scan_groups) + 1}
    /\ response' = Resp("create_group", "id", Cardinality(scan_groups) + 1)
    /\ UNCHANGED <<notJob, scans, files, tasks, reqs, allocated>>

\* schema.rs:369-403  update_group: ScanGroup::load, Err(_) => false; else the
\* fields given are set and the row is saved under its id (the model keeps
\* the ids of the groups, not their fields)
UpdateGroup(group_id) ==
    /\ response' = Resp("update_group",
                        IF group_id \in scan_groups THEN "true" ELSE "false", 0)
    /\ UNCHANGED <<notJob, scans, scan_groups, files, tasks, reqs, allocated>>

\* mutant: set_group is called without loading the scan first
AddScanToGroupUnloaded(scan_id, group_id) ==
    /\ scans' = IF scan_id \in 1..Len(scans)
                THEN SetGroup(scans, scan_id, group_id) ELSE scans
    /\ response' = Resp("add_scan_to_group",
                        IF group_id \in scan_groups THEN "true" ELSE "false", 0)
    /\ UNCHANGED <<notJob, scan_groups, files, tasks, reqs, allocated>>

\* schema.rs:462-472  Scan::load, then set_group: its UPDATE, then the load of
\* the group, whose failure makes the handler return false
AddScanToGroup(scan_id, group_id) ==
    /\ IF LoadOk(scans, scan_groups, scan_id)
       THEN /\ scans' = SetGroup(scans, scan_id, group_id)
            /\ response' = Resp("add_scan_to_group",
                                IF group_id \in scan_groups THEN "true" ELSE "false", 0)
       ELSE /\ scans' = scans
            /\ response' = Resp("add_scan_to_group", "false", 0)
    /\ UNCHANGED <<notJob, scan_groups, files, tasks, reqs, allocated>>

(***************************************************************************)
(* The environment: somebody removes a file from the assets directory.     *)
(***************************************************************************)
DeleteFile(p) ==
    /\ p \in files
    /\ files' = files \ {p}
    /\ UNCHANGED <<notJob, scans, scan_groups, tasks, reqs, response, allocated>>

(***************************************************************************)
(* migrate  (migrations.rs:88-131)                                         *)
(***************************************************************************)
\* migrations.rs:9-86  MIGRATIONS, by the kind of statement
MIGRATIONS ==
    <<"create_sequence", "create_sequence", "create_table_if_not_exists",
      "create_table_if_not_exists", "create_sequence", "create_table_if_not_exists",
      "alter_table_add_column", "alter_table_add_column", "alter_table_add_column",
      "alter_table_add_column", "alter_table_add_column", "alter_table_add_column",
      "alter_table_add_column", "alter_table_add_column", "alter_table_add_column",
      "alter_table_add_column", "update_where_null", "insert_where_not_exists">>

NumMigrations == Len(MIGRATIONS)

\* the statement of migration k (counted from 0, as in the code)
Migration(k) == MIGRATIONS[k + 1]

\* Whether the database executes migration k on a store on which the
\* migrations of done have been executed: CREATE SEQUENCE and ALTER TABLE ADD
\* COLUMN are errors when the sequence or the column exists already; the
\* other statements can be executed again.
Executes(k, done) ==
    \/ Migration(k) \in {"create_table_if_not_exists", "update_where_null",
                         "insert_where_not_exists"}
    \/ \A i \in 1..Len(done) : done[i] # k

\* the persisted store, as std::fs::copy copies it (migrations.rs:118)
StoreCopy == [meta_rows |-> meta_rows, applied |-> applied]

\* migrations.rs:94-112  the read of next_migration_idx: the first row when
\* the query succeeds and there is one; otherwise a row with 0 is inserted
RowsAfterRead(rows, read_ok) ==
    IF read_ok /\ rows # <<>> THEN rows ELSE Append(rows, 0)

NextMigrationIdx(rows, read_ok) ==
    IF read_ok /\ rows # <<>> THEN rows[1] ELSE 0

\* mutant: the UPDATE writes nothing
RowsAfterUpdateKept(rows, idx) == rows

\* migrations.rs:123-127  UPDATE meta_migration_schema SET next_migration_idx = ?
\* has no WHERE: every row is set
RowsAfterUpdate(rows, idx) == [i \in 1..Len(rows) |-> idx]

MaxFaults == 2   \* crashes and failed reads in one behaviour

\* the first start of the process on a new database file
MigInit ==
    /\ meta_rows = <<>>
    /\ applied = <<>>
    /\ backups = [k \in 0..(NumMigrations - 1) |-> None]
    /\ mig_pc = "off"
    /\ mig_idx = 0
    /\ faults = 0
    /\ run_backups = {}

\* main.rs:48, migrations.rs:88-112  the process starts and migrate reads (or
\* initializes) next_migration_idx; a read that fails is a fault
MigStart(read_ok) ==
    /\ mig_pc \in {"off", "stopped"}
    /\ read_ok \/ faults < MaxFaults
    /\ faults' = IF read_ok THEN faults ELSE faults + 1
    /\ meta_rows' = RowsAfterRead(meta_rows, read_ok)
    /\ mig_idx' = NextMigrationIdx(meta_rows, read_ok)
    /\ mig_pc' = "backup"
    /\ run_backups' = {}
    /\ UNCHANGED <<notMig, applied, backups>>

\* mutant: the copy is not made (as when conn.path() is None)
MigBackupSkipped ==
    /\ mig_pc = "backup"
    /\ mig_idx < NumMigrations
    /\ mig_pc' = "apply"
    /\ UNCHANGED <<notMig, meta_rows, applied, backups, mig_idx, faults, run_backups>>

\* migrations.rs:114-119  the copy of the store to "<db>.pre-<idx>-backup"
MigBackup ==
    /\ mig_pc = "backup"
    /\ mig_idx < NumMigrations
    /\ backups' = [backups EXCEPT ![mig_idx] = Some(StoreCopy)]
    /\ run_backups' = run_backups \cup {mig_idx}
    /\ mig_pc' = "apply"
    /\ UNCHANGED <<notMig, meta_rows, applied, mig_idx, faults>>

\* mutant: a statement that the database refuses is passed over
MigApplyContinues ==
    /\ mig_pc = "apply"
    /\ applied' = IF Executes(mig_idx, applied) THEN Append(applied, mig_idx) ELSE applied
    /\ mig_pc' = "update"
    /\ UNCHANGED <<notMig, meta_rows, backups, mig_idx, faults, run_backups>>

\* migrations.rs:121-122  conn.execute(migration).unwrap(): a statement that
\* the database refuses ends the process
MigApply ==
    /\ mig_pc = "apply"
    /\ IF Executes(mig_idx, applied)
       THEN /\ applied' = Append(applied, mig_idx)
            /\ mig_pc' = "update"
       ELSE /\ applied' = applied
            /\ mig_pc' = "off"
    /\ UNCHANGED <<notMig, meta_rows, backups, mig_idx, faults, run_backups>>

\* migrations.rs:123-127  next_migration_idx = idx + next_migration_idx + 1
MigUpdate ==
    /\ mig_pc = "update"
    /\ meta_rows' = RowsAfterUpdate(meta_rows, mig_idx + 1)
    /\ mig_idx' = mig_idx + 1
    /\ mig_pc' = "backup"
    /\ UNCHANGED <<notMig, applied, backups, faults, run_backups>>

\* migrations.rs:128-131  the loop is over, migrate returns
MigFinish ==
    /\ mig_pc = "backup"
    /\ mig_idx >= NumMigrations
    /\ mig_pc' = "done"
    /\ UNCHANGED <<notMig, meta_rows, applied, backups, mig_idx, faults, run_backups>>

\* the process is killed between two statements of migrate, or a statement
\* other than the migration itself fails and its unwrap ends the process
\* (migrations.rs:118, 127); what was written to the database file and the
\* backups stays
MigCrash ==
    /\ mig_pc \in {"backup", "apply", "update"}
    /\ faults < MaxFaults
    /\ faults' = faults + 1
    /\ mig_pc' = "off"
    /\ UNCHANGED <<notMig, meta_rows, applied, backups, mig_idx, run_backups>>

\* the store after one run of migrate on a new database file
Migrated ==
    /\ meta_rows = <<NumMigrations>>
    /\ applied = [i \in 1..NumMigrations |-> i - 1]
    /\ backups = [k \in 0..(NumMigrations - 1) |->
                     Some([meta_rows |-> <<k>>, applied |-> [i \in 1..k |-> i - 1]])]
    /\ mig_pc = "done"
    /\ mig_idx = NumMigrations
    /\ faults = 0
    /\ run_backups = 0..(NumMigrations - 1)

(***************************************************************************)
(* The device catalog: RealScannerManager's cached and last_refreshed,      *)
(* each behind its own Mutex (scanners.rs:52-55). One action per lock      *)
(* acquisition and per run of the external command.                        *)
(***************************************************************************)
\* scanners.rs:101  Duration::from_secs(60 * 10)
TTL == 600

MaxNow == 602        \* the clock stops here
MaxCalls == 2        \* callers of the catalog
MaxRefreshes == 2    \* invocations of the device-listing command in one behaviour

\* the steps of the clock: half the TTL, and a second more
TickSteps == {TTL \div 2, TTL \div 2 + 1}

\* scanners.rs:316  Instant::now() - (the time since UNIX_EPOCH): any age above
\* the TTL makes the first list_scanners refresh
SinceEpoch == 3 * TTL

MaxLines == 2        \* lines in the output of the device-listing command

\* scanners.rs:72  the pattern: "device", a backquote, a name without a quote,
\* a quote, " is a ", a description to the end of the line. Lines are read as
\* pieces of text: the two literals of the pattern (BQ the backquote, Q the
\* quote), a lone quote, and text without a quote
DEVICE == "device BQ"
QUOTE_IS_A == "Q is a "
QUOTE == "Q"
TEXT == "x"

\* the pieces that [^'] cannot run over
HasQuote(piece) == piece \in {QUOTE, QUOTE_IS_A}

ScannerInfo(name, description) == [name |-> name, description |-> description]

\* the positions of a line where the pattern can begin, those that end a
\* name, and the first of a set of positions
DevicePositions(line) == {i \in 1..Len(line) : line[i] = DEVICE}

QuotePositions(line) == {i \in 1..Len(line) : HasQuote(line[i])}

First(S) == CHOOSE i \in S : \A j \in S : i <= j

\* scanners.rs:84  re.captures(line): the leftmost match. From the first
\* DEVICE the name runs to the next quote; if that quote does not begin
\* QUOTE_IS_A no start before it can match, and the search goes on behind it
RECURSIVE Captures(_)
Captures(line) ==
    LET starts == DevicePositions(line) IN
    IF starts = {} THEN None
    ELSE LET i == First(starts)
             quotes == {j \in QuotePositions(line) : j > i}
         IN IF quotes = {} THEN None
            ELSE LET j == First(quotes) IN
                 IF line[j] = QUOTE_IS_A
                 THEN Some(ScannerInfo(SubSeq(line, i + 1, j - 1),
                                       SubSeq(line, j + 1, Len(line))))
                 ELSE Captures(SubSeq(line, j + 1, Len(line)))

\* scanners.rs:81-90  results: one ScannerInfo per line that matches, in the
\* order of the lines
RECURSIVE ParseOutput(_)
ParseOutput(stdout) ==
    IF stdout = <<>> THEN <<>>
    ELSE LET captures == Captures(Head(stdout)) IN
         (IF captures = None THEN <<>> ELSE <<Unwrap(captures)>>)
            \o ParseOutput(Tail(stdout))

\* the lines the command prints: a device, text without a device, and a
\* device with an empty name and description behind text that begins like one
OutputLines ==
    { <<DEVICE, TEXT, QUOTE_IS_A, TEXT>>,
      <<TEXT, QUOTE_IS_A, TEXT>>,
      <<DEVICE, QUOTE, TEXT, DEVICE, QUOTE_IS_A>> }

Outputs == UNION {[1..n -> OutputLines] : n \in 0..MaxLines}

\* the device lists that the output of the command parses to
DeviceLists == {ParseOutput(stdout) : stdout \in Outputs}

\* scanners.rs:73-79  what the run of "scanimage --list-devices" ends in: an
\* output that decodes to lines, a failure to spawn, or an output that is not
\* UTF-8
ListingOutcomes ==
    {[kind |-> "ok", stdout |-> o] : o \in Outputs}
    \cup {[kind |-> "spawn_error", stdout |-> <<>>], [kind |-> "not_utf8", stdout |-> <<>>]}

Callers == 1..MaxCalls

\* a call of caller c: the operation, where it is, the last_refreshed and the
\* list it has read or produced (with the invocations they stem from), how
\* often it has run the command, whether no other call has overlapped it,
\* the lines the command printed to it, and the milliseconds it reports
Call(op, pc, ts, gen_ts, list, gen_list, invoked) ==
    [op |-> op, pc |-> pc, ts |-> ts, gen_ts |-> gen_ts, list |-> list,
     gen_list |-> gen_list, invoked |-> invoked, alone |-> TRUE, stdout |-> <<>>,
     elapsed |-> 0]

NoCall == Call("none", "idle", 0, 0, <<>>, 0, 0)

\* the caller is in no call: it can start one
Free(c) == calls[c].pc \in {"idle", "returned", "panicked"}

\* caller c begins a call: the calls in flight are no longer alone, and
\* neither is the new one if there are any
Begin(c, call) ==
    [d \in Callers |->
        IF d = c THEN [call EXCEPT !.alone = \A e \in Callers \ {c} : Free(e)]
        ELSE IF Free(d) THEN calls[d]
        ELSE [calls[d] EXCEPT !.alone = FALSE]]

\* the callers about to run the command
Invoking == {c \in Callers : calls[c].pc = "invoke"}

\* scanners.rs:312-319  RealScannerManager::new
DevInit ==
    /\ cached = <<>>
    /\ now = 0
    /\ last_refreshed = 0 - SinceEpoch
    /\ calls = [c \in Callers |-> NoCall]
    /\ refreshes = 0
    /\ cached_gen = 0
    /\ ts_gen = 0

\* scanners.rs:101  last_refreshed.elapsed() > Duration::from_secs(60 * 10)
Stale(ts) == now - ts > TTL

\* scanners.rs:98-105  list_scanners reads last_refreshed under its lock and
\* decides between force_list_scanners and the cached list
ListStart(c) ==
    /\ Free(c)
    /\ Stale(last_refreshed) => refreshes + Cardinality(Invoking) < MaxRefreshes
    /\ calls' = Begin(c,
          Call("list_scanners",
               IF Stale(last_refreshed) THEN "invoke" ELSE "read_cached",
               last_refreshed, ts_gen, <<>>, 0, 0))
    /\ UNCHANGED <<notDev, cached, last_refreshed, now, refreshes, cached_gen, ts_gen>>

\* scanners.rs:104  self.cached.lock().await.clone()
ListReadCached(c) ==
    /\ calls[c].pc = "read_cached"
    /\ calls' = [calls EXCEPT ![c] =
          [@ EXCEPT !.pc = "returned", !.list = cached, !.gen_list = cached_gen]]
    /\ UNCHANGED <<notDev, cached, last_refreshed, now, refreshes, cached_gen, ts_gen>>

\* scanners.rs:71  a caller calls force_list_scanners
ForceStart(c) ==
    /\ Free(c)
    /\ refreshes + Cardinality(Invoking) < MaxRefreshes
    /\ calls' = Begin(c, Call("force_list_scanners", "invoke", 0, 0, <<>>, 0, 0))
    /\ UNCHANGED <<notDev, cached, last_refreshed, now, refreshes, cached_gen, ts_gen>>

\* scanners.rs:72-90  the command runs and its output is parsed; both unwraps
\* (of the spawn, of the decoding) abort the caller
Invoke(c, outcome) ==
    /\ calls[c].pc = "invoke"
    /\ refreshes' = refreshes + 1
    /\ calls' = [calls EXCEPT ![c] =
          IF outcome.kind = "ok"
          THEN [@ EXCEPT !.pc = "write_cached", !.stdout = outcome.stdout,
                         !.list = ParseOutput(outcome.stdout),
                         !.gen_list = refreshes + 1, !.invoked = @ + 1]
          ELSE [@ EXCEPT !.pc = "panicked", !.invoked = @ + 1]]
    /\ UNCHANGED <<notDev, cached, last_refreshed, now, cached_gen, ts_gen>>

\* scanners.rs:92  *self.cached.lock().await = results.clone()
WriteCached(c) ==
    /\ calls[c].pc = "write_cached"
    /\ cached' = calls[c].list
    /\ cached_gen' = calls[c].gen_list
    /\ calls' = [calls EXCEPT ![c] = [@ EXCEPT !.pc = "write_ts", !.stdout = <<>>]]
    /\ UNCHANGED <<notDev, last_refreshed, now, refreshes, ts_gen>>

\* scanners.rs:93-95  *self.last_refreshed.lock().await = Instant::now(); results
WriteTs(c) ==
    /\ calls[c].pc = "write_ts"
    /\ last_refreshed' = now
    /\ ts_gen' = calls[c].gen_list
    /\ calls' = [calls EXCEPT ![c] = [@ EXCEPT !.pc = "returned"]]
    /\ UNCHANGED <<notDev, cached, now, refreshes, cached_gen>>

\* schema.rs:57  Duration::as_millis of a duration in seconds
AsMillis(secs) == secs * 1000

\* schema.rs:54-58, scanners.rs:67-69  staleness reads last_refreshed under its
\* lock and returns the time elapsed since
StalenessTouches(c) ==
    /\ Free(c)
    /\ calls' = Begin(c, Call("staleness", "returned", now, ts_gen, <<>>, 0, 0))
    /\ last_refreshed' = now
    /\ UNCHANGED <<notDev, cached, now, refreshes, cached_gen, ts_gen>>

Staleness(c) ==
    /\ Free(c)
    /\ calls' = Begin(c,
          [Call("staleness", "returned", last_refreshed, ts_gen, <<>>, 0, 0)
              EXCEPT !.elapsed = AsMillis(now - last_refreshed)])
    /\ UNCHANGED <<notDev, cached, last_refreshed, now, refreshes, cached_gen, ts_gen>>

\* time passes
Tick(d) ==
    /\ now + d <= MaxNow
    /\ now' = now + d
    /\ UNCHANGED <<notDev, cached, last_refreshed, calls, refreshes, cached_gen, ts_gen>>

(***************************************************************************)
(* The inputs the model draws from.                                        *)
(***************************************************************************)
ScannerNames == {"scanner"}
\* the parameters argument: the text of a JSON object of strings
ScanParameters == {"{}"}
\* the scanner and the parameters that a retry can name besides those of submit
RetryArgs ==
    {[name |-> n, parameters |-> p] : n \in ScannerNames, p \in ScanParameters}
    \cup {[name |-> "scanner2", parameters |-> "{\"--mode\":\"Gray\"}"]}
ScanIds == 1..MaxScans
TaskIds == 1..MaxTasks
GroupIds == 1..(MaxGroups + 1)
RotationArgs == {-90, 45}
CropArgs == {1}

(***************************************************************************)
(* Specifications.                                                         *)
(***************************************************************************)
\* MutationRoot::scan
Submit ==
    \/ \E name \in ScannerNames, parameters \in ScanParameters :
          ScanSave(name, parameters, 0)
    \/ \E r \in reqs : ScanSpawn(r)

\* MutationRoot::retry_scan
Retry ==
    \/ \E scan_id \in ScanIds : RetryLoad(scan_id)
    \/ \E r \in reqs, name \in ScannerNames, parameters \in ScanParameters :
          RetrySave(r, name, parameters)

\* the spawned tasks
Executor ==
    \/ \E t \in TaskIds : ExecLoad(t)
    \/ \E t \in TaskIds : ExecAllocate(t)
    \/ \E t \in TaskIds, outcome \in Outcomes : ExecAttempt(t, outcome)
    \/ \E t \in TaskIds : ExecFinalize(t)

Init == JobInit /\ Migrated /\ DevInit /\ PathIdle

Next ==
    \/ Submit
    \/ Retry
    \/ Executor
    \/ \E p \in files : DeleteFile(p)

\* the server after startup: the job lifecycle and the files of the assets dir
Spec == Init /\ [][Next]_vars

\* a caller that retries a job only while its status is COMPLETE or FAILED
RetryOfEndedJob(scan_id) ==
    /\ scan_id \in 1..Len(scans)
    /\ scans[scan_id].status \in {"COMPLETE", "FAILED"}
    /\ RetryLoad(scan_id)

SerialNext ==
    \/ Submit
    \/ \E scan_id \in ScanIds : RetryOfEndedJob(scan_id)
    \/ \E r \in reqs, a \in RetryArgs : RetrySave(r, a.name, a.parameters)
    \/ Executor
    \/ \E p \in files : DeleteFile(p)

\* Spec with callers that serialize the retries of a job
SpecSerial == Init /\ [][SerialNext]_vars

MaxMetaScans == 1   \* rows inserted into scans under SpecMeta

\* MutationRoot::scan with and without a group id
SubmitToGroup ==
    \/ \E name \in ScannerNames, parameters \in ScanParameters,
          group_id \in {0} \cup GroupIds :
          Len(scans) < MaxMetaScans /\ ScanSave(name, parameters, group_id)
    \/ \E r \in reqs : ScanSpawn(r)

MetaNext ==
    \/ SubmitToGroup
    \/ \E scan_id \in ScanIds : RetryOfEndedJob(scan_id)
    \/ \E r \in reqs, name \in ScannerNames, parameters \in ScanParameters :
          RetrySave(r, name, parameters)
    \/ Executor
    \/ \E scan_id \in ScanIds, rotation \in RotationArgs : RotateLoad(scan_id, rotation)
    \/ \E r \in reqs : RotateSave(r)
    \/ \E scan_id \in ScanIds, n \in CropArgs : CropLoad(scan_id, n)
    \/ \E r \in reqs : CropSave(r)
    \/ CreateGroup
    \/ \E scan_id \in ScanIds, group_id \in GroupIds : AddScanToGroup(scan_id, group_id)

\* the job lifecycle, with callers that serialize the retries of a job,
\* together with the mutations of rotation, crop and group
SpecMeta == Init /\ [][MetaNext]_vars

\* complete_scan on every base name and every set of existing files: the rows
\* are rows of jobs whose retry has just been dispatched, the files are any of
\* the candidates with a counter up to MaxCounter
MaxCounter == 2
AllocBases == {<<"tmp">>, <<"5">>}
AllocFiles == {Candidate(b, n) : b \in AllocBases, n \in 0..MaxCounter}

AllocateInit ==
    /\ \E b \in AllocBases :
          scans = <<RowOfInsert(ScanNew("PENDING", RelPath("scans", b, "png"),
                                        "scanner", "{}"))>>
    /\ files \in SUBSET AllocFiles
    /\ scan_groups = {}
    /\ tasks = <<NewTask(1, "retry_scan", "scanner", "{}")>>
    /\ reqs = {}
    /\ response = Resp("retry_scan", "id", 1)
    /\ allocated = <<{}>>
    /\ Migrated
    /\ DevInit
    /\ PathIdle

SpecAllocate == AllocateInit /\ [][Executor]_vars

\* the spawned tasks when the server runs the mock variant
MockExecutor ==
    \/ \E t \in TaskIds : ExecLoad(t)
    \/ \E t \in TaskIds : ExecAllocate(t)
    \/ \E t \in TaskIds, outcome \in MockOutcomes : MockWrite(t, outcome)
    \/ \E t \in TaskIds : MockFinalize(t)

MockNext ==
    \/ \E parameters \in ScanParameters : ScanSave(MOCK_SCANNER_NAME, parameters, 0)
    \/ \E r \in reqs : ScanSpawn(r)
    \/ \E scan_id \in ScanIds : RetryOfEndedJob(scan_id)
    \/ \E r \in reqs, parameters \in ScanParameters :
          RetrySave(r, MOCK_SCANNER_NAME, parameters)
    \/ MockExecutor

\* the server started with MOCK_SCANNER=true, with callers that serialize retries
SpecMock == Init /\ [][MockNext]_vars

\* The server some time after startup: job 1 was submitted and its execution
\* ended with COMPLETE (a state of Spec); the ended task is not kept.
EndedInit ==
    /\ scans = <<[RowOfInsert(ScanNew("PENDING", PlaceholderPath, "scanner", "{}"))
                    EXCEPT !.status = "COMPLETE"]>>
    /\ files = {PlaceholderPath}
    /\ scan_groups = {}
    /\ tasks = <<>>
    /\ reqs = {}
    /\ response = Resp("scan", "id", 1)
    /\ allocated = <<{PlaceholderPath}>>
    /\ Migrated
    /\ DevInit
    /\ PathIdle

\* callers that serialize the retries of a job, and callers of rotate_scan
EndedNext ==
    \/ \E scan_id \in ScanIds : RetryOfEndedJob(scan_id)
    \/ \E r \in reqs, name \in ScannerNames, parameters \in ScanParameters :
          RetrySave(r, name, parameters)
    \/ Executor
    \/ \E scan_id \in ScanIds : RotateLoad(scan_id, 90)
    \/ \E r \in reqs : RotateSave(r)

SpecEnded == EndedInit /\ [][EndedNext]_vars

\* main.rs:41-82  the process that serves is stopped: its tasks, its handlers
\* and its ScannerManager are gone (the next process builds a new one,
\* main.rs:52); the database file and the assets directory stay
MigStop ==
    /\ mig_pc = "done"
    /\ mig_pc' = "stopped"
    /\ tasks' = <<>>
    /\ reqs' = {}
    /\ response' = Resp("none", "none", 0)
    /\ calls' = [c \in Callers |-> NoCall]
    /\ cached' = <<>>
    /\ last_refreshed' = now - SinceEpoch
    /\ cached_gen' = 0
    /\ ts_gen' = 0
    /\ UNCHANGED <<scans, scan_groups, files, allocated, now, refreshes,
                   meta_rows, applied, backups, mig_idx, faults, run_backups,
                   pathVars>>

\* the callers of the device catalog, and the clock
DevNext ==
    \/ \E c \in Callers : ListStart(c)
    \/ \E c \in Callers : ListReadCached(c)
    \/ \E c \in Callers : ForceStart(c)
    \/ \E c \in Callers, outcome \in ListingOutcomes : Invoke(c, outcome)
    \/ \E c \in Callers : WriteCached(c)
    \/ \E c \in Callers : WriteTs(c)
    \/ \E c \in Callers : Staleness(c)
    \/ \E d \in TickSteps : Tick(d)

SpecDevices == Init /\ [][DevNext]_vars

\* the handlers that change the data of a job or of a group, on the jobs that
\* submit has saved (their tasks do not run)
HandlersNext ==
    \/ \E name \in ScannerNames, parameters \in ScanParameters :
          Len(scans) < MaxMetaScans /\ ScanSave(name, parameters, 0)
    \/ \E r \in reqs : ScanSpawn(r)
    \/ \E scan_id \in ScanIds, rotation \in RotationArgs : RotateLoad(scan_id, rotation)
    \/ \E r \in reqs : RotateSave(r)
    \/ \E scan_id \in ScanIds, n \in CropArgs : CropLoad(scan_id, n)
    \/ \E r \in reqs : CropSave(r)
    \/ CreateGroup
    \/ \E scan_id \in ScanIds, group_id \in GroupIds : AddScanToGroup(scan_id, group_id)
    \/ \E group_id \in GroupIds : UpdateGroup(group_id)

SpecHandlers == Init /\ [][HandlersNext]_vars

MigNext ==
    \/ \E read_ok \in BOOLEAN : MigStart(read_ok)
    \/ MigBackup
    \/ MigApply
    \/ MigUpdate
    \/ MigFinish
    \/ MigCrash
    \/ MigStop

MigrateInit == JobInit /\ MigInit /\ DevInit /\ PathIdle

\* startup: the runs of migrate on one database file, with crashes and restarts
SpecMigrate == MigrateInit /\ [][MigNext]_vars

MaxStartupScans == 1   \* jobs submitted in one behaviour of the startup

\* mutant: the server is built while migrate is still running
ServingUnawaited == mig_pc \in {"backup", "apply", "update", "done"}

\* main.rs:48-81  migrate(&pool).await comes before the ScannerManager, the
\* schema and the Server: requests are handled once migrate has returned
Serving == mig_pc = "done"

\* the process: migrate, then the operations of the server once it serves:
\* submit (one job) and its spawned task, and the catalog calls of one caller,
\* the command printing nothing
StartupNext ==
    \/ MigNext
    \/ /\ Serving
       /\ Len(scans) < MaxStartupScans
       /\ \E name \in ScannerNames, parameters \in ScanParameters :
             ScanSave(name, parameters, 0)
    \/ Serving /\ \E r \in reqs : ScanSpawn(r)
    \/ Serving /\ \E t \in TaskIds : ExecLoad(t)
    \/ Serving /\ \E t \in TaskIds : ExecAllocate(t)
    \/ Serving /\ \E t \in TaskIds, outcome \in Outcomes : ExecAttempt(t, outcome)
    \/ Serving /\ \E t \in TaskIds : ExecFinalize(t)
    \/ Serving /\ ListStart(1)
    \/ Serving /\ ListReadCached(1)
    \/ Serving /\ ForceStart(1)
    \/ Serving /\ \E outcome \in ListingOutcomes :
                      outcome.stdout = <<>> /\ Invoke(1, outcome)
    \/ Serving /\ WriteCached(1)
    \/ Serving /\ WriteTs(1)
    \/ Serving /\ Staleness(1)

\* the process from its first start on a new database file: migrate, then
\* the server, with crashes, stops and restarts
SpecStartup == MigrateInit /\ [][StartupNext]_vars

(***************************************************************************)
(* Properties of the job lifecycle.                                        *)
(***************************************************************************)
Tasks == 1..Len(tasks)
Rows == 1..Len(scans)

\* task t invokes the driver in this step
Invokes(t) == tasks'[t].attempts = tasks[t].attempts + 1

\* task t saves its final status in this step
Finalizes(t) == tasks[t].pc = "save" /\ tasks'[t].pc = "done"

\* every invocation that task t has made exited non-zero
AllFailed(t) == tasks[t].output_status \notin {None, Some(0)}

\* task t is the only execution its job has had, and no retry of the job is
\* in flight
OnlyExecution(t) ==
    /\ \A u \in Tasks : tasks[u].scan_id = tasks[t].scan_id => u = t
    /\ \A r \in reqs : r.scan_id = tasks[t].scan_id => r.op # "retry_scan"

\* C1: an execution of do_scan whose driver invocations all exit non-zero
\* invokes the driver exactly 3 times; while it invokes the driver it writes
\* nothing to the store, so the status of a job with this one execution stays
\* PENDING until the third invocation has ended; then it persists FAILED.
C1_StaysPendingThroughAttempts ==
    \A t \in Tasks :
        /\ tasks[t].attempts <= 3
        /\ (tasks[t].pc \in {"save", "done"} /\ AllFailed(t)) => tasks[t].attempts = 3
        /\ (tasks[t].pc \in {"allocate", "scan", "save"} /\ OnlyExecution(t)
              /\ tasks[t].scan_id \in Rows)
           => scans[tasks[t].scan_id].status = "PENDING"

C1_FailedPersistedAtEnd ==
    \A t \in Tasks :
        /\ Invokes(t) => scans' = scans
        /\ (Finalizes(t) /\ AllFailed(t))
           => /\ tasks[t].attempts = 3
              /\ scans'[tasks[t].scan_id].status = "FAILED"

C1_FailedOnlyAfterThreeAttempts ==
    []C1_StaysPendingThroughAttempts /\ [][C1_FailedPersistedAtEnd]_vars

\* C1 witness: an execution has ended after 3 invocations, the last one with a
\* non-zero exit code, and the status of its job is FAILED
C1_Witness ==
    \E t \in Tasks :
        /\ tasks[t].pc = "done"
        /\ tasks[t].attempts = 3
        /\ tasks[t].output_status = Some(1)
        /\ scans[tasks[t].scan_id].status = "FAILED"

\* C2: an execution of do_scan persists COMPLETE as its final status if and
\* only if one of its invocations exited 0 (FAILED otherwise); it makes no
\* invocation after one that exited 0, and never more than 3.
C2_NoInvocationAfterSuccess ==
    \A t \in Tasks :
        /\ tasks[t].attempts <= 3
        /\ (tasks[t].pc = "scan" /\ tasks[t].attempts > 0) => AllFailed(t)

C2_FinalStatusStep ==
    \A t \in Tasks :
        /\ (tasks[t].output_status = Some(0) \/ tasks[t].attempts >= 3) => ~Invokes(t)
        /\ Finalizes(t)
           => /\ scans'[tasks[t].scan_id].status \in {"COMPLETE", "FAILED"}
              /\ scans'[tasks[t].scan_id].status = "COMPLETE"
                   <=> tasks[t].output_status = Some(0)

C2_CompleteIffAnAttemptSucceeds ==
    []C2_NoInvocationAfterSuccess /\ [][C2_FinalStatusStep]_vars

\* C2 witness: the driver failed twice and then exited 0: the execution has
\* ended after exactly 3 invocations and the status of its job is COMPLETE
C2_Witness ==
    \E t \in Tasks :
        /\ tasks[t].pc = "done"
        /\ tasks[t].attempts = 3
        /\ tasks[t].output_status = Some(0)
        /\ scans[tasks[t].scan_id].status = "COMPLETE"

\* C3: a driver that cannot be spawned, or that ends without an exit code, is
\* handled like a non-zero exit: an execution that has invoked the driver is
\* invoking it again, persisting the final status, or has persisted it.
C3_SpawnFailureIsRetried ==
    \A t \in Tasks :
        tasks[t].attempts > 0 => tasks[t].pc \in {"scan", "save", "done"}

\* C5: submit has inserted the row, with status PENDING, and has its id before
\* it spawns the task: every submit in flight and every task names a row of
\* the store, a row is inserted as PENDING with no task for it, and the task
\* that submit spawns has not invoked the driver when submit returns the id.
C5_RowBeforeTask ==
    /\ \A r \in reqs : r.op = "scan" => r.scan_id \in Rows
    /\ \A t \in Tasks : tasks[t].scan_id \in Rows

C5_SubmitStep ==
    /\ Len(scans') > Len(scans)
       => /\ scans'[Len(scans')].status = "PENDING"
          /\ tasks' = tasks
          /\ \A t \in Tasks : tasks[t].scan_id # Len(scans')
          /\ \E r \in reqs' \ reqs : r.op = "scan" /\ r.scan_id = Len(scans')
    /\ (Len(tasks') > Len(tasks) /\ tasks'[Len(tasks')].by = "scan")
       => /\ tasks'[Len(tasks')].scan_id \in Rows
          /\ tasks'[Len(tasks')].attempts = 0
          /\ tasks'[Len(tasks')].pc = "load"
          /\ response' = Resp("scan", "id", tasks'[Len(tasks')].scan_id)
          /\ \A t \in Tasks : tasks[t].scan_id = tasks'[Len(tasks')].scan_id
                               => tasks[t].by = "retry_scan"

C5_SubmitPersistsBeforeDispatch ==
    []C5_RowBeforeTask /\ [][C5_SubmitStep]_vars

\* C5 witness: submit has returned the id of a PENDING row whose task has not
\* started
C5_Witness ==
    /\ response.op = "scan"
    /\ response.result = "id"
    /\ response.id \in Rows
    /\ scans[response.id].status = "PENDING"
    /\ \E t \in Tasks : /\ tasks[t].scan_id = response.id
                        /\ tasks[t].by = "scan"
                        /\ tasks[t].pc = "load"
                        /\ tasks[t].attempts = 0

\* C6: no dispatched job stays PENDING: when every execution of a job has
\* ended and no handler is in flight for it, its status is COMPLETE or FAILED.
C6_NoJobStuckPending ==
    \A id \in Rows :
        (/\ \E t \in Tasks : tasks[t].scan_id = id
         /\ \A t \in Tasks : tasks[t].scan_id = id => tasks[t].pc \in {"done", "panicked"}
         /\ \A r \in reqs : r.scan_id # id)
        => scans[id].status \in {"COMPLETE", "FAILED"}

\* C4: the status of every row is PENDING, COMPLETE or FAILED, and it changes
\* only from PENDING to COMPLETE or FAILED, or to PENDING in the step in which
\* a retry saves the row.
C4_StatusValues ==
    \A id \in Rows : scans[id].status \in {"PENDING", "COMPLETE", "FAILED"}

C4_StatusStep ==
    \A id \in Rows :
        scans'[id].status # scans[id].status
        => \/ /\ scans[id].status = "PENDING"
              /\ scans'[id].status \in {"COMPLETE", "FAILED"}
           \/ /\ scans'[id].status = "PENDING"
              /\ \E r \in reqs \ reqs' : r.op = "retry_scan" /\ r.scan_id = id

C4_StatusTransitions == []C4_StatusValues /\ [][C4_StatusStep]_vars

\* task t saves the path it has allocated in this step
Allocates(t) == tasks[t].pc = "allocate" /\ tasks'[t].pc = "scan"

\* C9: the path that the execution of a retry allocates is none of the paths
\* allocated to the job before.
C9_RetryStep ==
    \A t \in Tasks :
        (Allocates(t) /\ tasks[t].by = "retry_scan")
        => Unwrap(tasks'[t].scan).path \notin allocated[tasks[t].scan_id]

C9_RetryNeverReusesPath == [][C9_RetryStep]_vars

\* C10: no path has been allocated to two different jobs.
C10_NoPathAllocatedTwice ==
    \A i, j \in Rows : i # j => allocated[i] \cap allocated[j] = {}

(***************************************************************************)
(* Properties of migrate.                                                  *)
(***************************************************************************)
\* C7: the migrations executed on the store, over all runs, are 0, 1, 2, ...
\* in this order: none twice, none skipped.
C7_AppliedOnceInOrder ==
    \A i \in 1..Len(applied) : applied[i] = i - 1

\* C8: migration k is executed only after the running migrate has copied the
\* store to the backup of k, and the copy is the store as migration k finds
\* it; when the run has executed migration k-1 too, the copy holds the index
\* update of k-1 (next_migration_idx = k) and the execution of k-1.
BackedUp(k) ==
    /\ k \in run_backups
    /\ backups[k] = Some(StoreCopy)
    /\ (k - 1) \in run_backups
       => /\ \A i \in 1..Len(meta_rows) : Unwrap(backups[k]).meta_rows[i] = k
          /\ Unwrap(backups[k]).applied # <<>>
          /\ Unwrap(backups[k]).applied[Len(applied)] = k - 1

C8_BackupBeforeApplyStep ==
    applied' # applied => (applied' = Append(applied, mig_idx) /\ BackedUp(mig_idx))

C8_BackupBeforeApply ==
    [](mig_pc = "apply" => BackedUp(mig_idx)) /\ [][C8_BackupBeforeApplyStep]_vars

\* C8 witness: migration k > 0 has just been executed in a run that has
\* executed k-1 before, and the backup of k is the store from before
C8_Witness ==
    /\ mig_pc = "update"
    /\ mig_idx > 0
    /\ (mig_idx - 1) \in run_backups
    /\ backups[mig_idx] # None
    /\ Unwrap(backups[mig_idx]).applied = SubSeq(applied, 1, Len(applied) - 1)
    /\ applied[Len(applied)] = mig_idx

(***************************************************************************)
(* Properties of the path allocation.                                      *)
(***************************************************************************)
\* "scans/<B>.png" for n = 0 and "scans/<B>_<n>.png" for n >= 1
NthPath(B, n) ==
    [dir |-> "scans", stem |-> IF n = 0 THEN B ELSE B \o <<ToString(n)>>, ext |-> "png"]

\* the base name that task t allocates with
BaseOf(t) == BaseName(Unwrap(tasks[t].scan), tasks[t].scan_id)

\* C11: with base name B and existing files F, complete_scan allocates
\* scans/B.png when it is not in F, and otherwise scans/B_n.png for the
\* smallest n >= 1 with scans/B_n.png not in F; the path is not in F, and the
\* search ends: a free candidate is among the first |F| + 1.
C11_SearchTerminates ==
    \A t \in Tasks :
        tasks[t].pc = "allocate"
        => \E n \in 0..Cardinality(files) : NthPath(BaseOf(t), n) \notin files

C11_AllocationStep ==
    \A t \in Tasks :
        Allocates(t)
        => LET P == scans'[tasks[t].scan_id].path IN
           /\ P \notin files
           /\ P = Unwrap(tasks'[t].scan).path
           /\ IF NthPath(BaseOf(t), 0) \notin files
              THEN P = NthPath(BaseOf(t), 0)
              ELSE \E n \in 1..Cardinality(files) :
                      /\ P = NthPath(BaseOf(t), n)
                      /\ \A m \in 0..(n - 1) : NthPath(BaseOf(t), m) \in files

C11_SmallestFreeCandidate ==
    []C11_SearchTerminates /\ [][C11_AllocationStep]_vars

\* C11 witness: scans/5.png and scans/5_1.png exist and the job with base name
\* 5 has been allocated scans/5_2.png
C11_Witness ==
    \E t \in Tasks :
        /\ tasks[t].pc = "scan"
        /\ tasks[t].attempts = 0
        /\ {NthPath(<<"5">>, 0), NthPath(<<"5">>, 1)} \subseteq files
        /\ scans[tasks[t].scan_id].path = NthPath(<<"5">>, 2)

\* the paths that the allocation can give with base name B
PathsOf(B) == {NthPath(B, n) : n \in 0..Cardinality(files)}

\* C12: the first execution after submit allocates with the job's id as base
\* name (scans/<id>.png or scans/<id>_<n>.png); the execution of a retry
\* allocates with the stem of the row's original_path.
C12_BaseNameStep ==
    \A t \in Tasks :
        Allocates(t)
        => LET id == tasks[t].scan_id IN
           IF tasks[t].by = "scan"
           THEN scans'[id].path \in PathsOf(<<ToString(id)>>)
           ELSE /\ scans[id].original_path # None
                /\ scans'[id].path \in PathsOf(Unwrap(scans[id].original_path).stem)

C12_BaseNameIsIdThenStem == [][C12_BaseNameStep]_vars

\* C13: with the mock variant, no job before and an empty assets directory,
\* the job that submit("mock:scanner") created ends with status COMPLETE, the
\* path scans/<id>.png and original_path equal to path.
C13_MockEndToEnd ==
    (/\ Len(scans) = 1
     /\ scans[1].scanner = MOCK_SCANNER_NAME
     /\ reqs = {}
     /\ Len(tasks) = 1
     /\ tasks[1].by = "scan"
     /\ tasks[1].pc = "done")
    => /\ scans[1].status = "COMPLETE"
       /\ scans[1].path = NthPath(<<ToString(1)>>, 0)
       /\ scans[1].original_path = Some(scans[1].path)

\* task t is the last execution dispatched for its job
LastExecution(t) == \A u \in Tasks : tasks[u].scan_id = tasks[t].scan_id => u <= t

\* C14: the execution of a retry of a job whose path scans/<b>.png is its
\* original_path and exists on disk, while scans/<b>_1.png does not, saves the
\* path scans/<b>_1.png and leaves original_path as it was; the retry has put
\* the status to PENDING, and when its execution has ended the status is
\* COMPLETE or FAILED again.
C14_RetryAllocationStep ==
    \A t \in Tasks :
        LET id == tasks[t].scan_id
            b == scans[id].path.stem
        IN (/\ Allocates(t)
            /\ tasks[t].by = "retry_scan"
            /\ scans[id].original_path = Some(scans[id].path)
            /\ scans[id].path = NthPath(b, 0)
            /\ NthPath(b, 0) \in files
            /\ NthPath(b, 1) \notin files)
           => /\ scans[id].status = "PENDING"
              /\ scans'[id].status = "PENDING"
              /\ scans'[id].path = NthPath(b, 1)
              /\ scans'[id].original_path = scans[id].original_path

C14_RetryEnded ==
    \A t \in Tasks :
        (/\ tasks[t].by = "retry_scan"
         /\ LastExecution(t)
         /\ tasks[t].pc \in {"done", "panicked"}
         /\ \A r \in reqs : r.scan_id # tasks[t].scan_id)
        => scans[tasks[t].scan_id].status \in {"COMPLETE", "FAILED"}

C14_RetryEndToEnd == []C14_RetryEnded /\ [][C14_RetryAllocationStep]_vars

\* C15: a row's original_path, once set, is changed by no step (of retry, of
\* the executor's allocation and finalization, of rotate_scan, crop_scan and
\* add_scan_to_group), and no in-memory copy of a row carries another value
\* than the row; the allocation sets it only in a copy in which it is unset.
C15_CopiesAgree ==
    /\ \A t \in Tasks :
          (tasks[t].scan # None /\ scans[tasks[t].scan_id].original_path # None)
          => Unwrap(tasks[t].scan).original_path = scans[tasks[t].scan_id].original_path
    /\ \A r \in reqs :
          (r.scan # None /\ scans[r.scan_id].original_path # None)
          => Unwrap(r.scan).original_path = scans[r.scan_id].original_path

C15_OriginalPathStep ==
    /\ \A id \in Rows :
          scans[id].original_path # None
          => scans'[id].original_path = scans[id].original_path
    /\ \A t \in Tasks :
          (Allocates(t) /\ Unwrap(tasks[t].scan).original_path # None)
          => Unwrap(tasks'[t].scan).original_path = Unwrap(tasks[t].scan).original_path

C15_OriginalPathSetOnce == []C15_CopiesAgree /\ [][C15_OriginalPathStep]_vars

\* C15 witness: a retry has been allocated another path than the first
\* execution, a rotation has been saved, and original_path is still the first
C15_Witness ==
    \E t \in Tasks :
        /\ tasks[t].by = "retry_scan"
        /\ tasks[t].pc = "done"
        /\ scans[tasks[t].scan_id].rotation # 0
        /\ scans[tasks[t].scan_id].path = NthPath(<<"tmp">>, 1)
        /\ scans[tasks[t].scan_id].original_path = Some(NthPath(<<"tmp">>, 0))

\* C16: a Scan has no id until its first save, which inserts the row and gives
\* it the id of the row; afterwards the id never changes: every in-memory copy
\* of a handler or task carries the id of the row it was loaded from, no row
\* is removed, a row is added only by the first save of submit, and retry
\* returns the id it was given and dispatches the execution under that id.
C16_IdsAgree ==
    /\ \A r \in reqs :
          /\ r.scan_id \in Rows
          /\ r.scan # None => Unwrap(r.scan).id = Some(r.scan_id)
    /\ \A t \in Tasks :
          /\ tasks[t].scan_id \in Rows
          /\ tasks[t].scan # None => Unwrap(tasks[t].scan).id = Some(tasks[t].scan_id)

C16_IdStep ==
    /\ Len(scans') >= Len(scans)
    /\ Len(scans') > Len(scans)
       => /\ Len(scans') = Len(scans) + 1
          /\ ScanNew("PENDING", PlaceholderPath, "scanner", "{}").id = None
          /\ \E r \in reqs' \ reqs :
                /\ r.op = "scan"
                /\ Unwrap(r.scan).id = Some(Len(scans'))
    /\ \A t \in Tasks : tasks'[t].scan_id = tasks[t].scan_id
    /\ \A r \in reqs \ reqs' :
          r.op = "retry_scan"
          => /\ response' = Resp("retry_scan", "id", r.scan_id)
             /\ Len(tasks') = Len(tasks) + 1
             /\ tasks'[Len(tasks')].scan_id = r.scan_id
             /\ Len(scans') = Len(scans)

C16_IdAssignedOnceAndStable == []C16_IdsAgree /\ [][C16_IdStep]_vars

\* C16 witness: job 1 has been executed, retried and executed again; retry
\* returned 1 and there is still one row
C16_Witness ==
    /\ Len(scans) = 1
    /\ response = Resp("retry_scan", "id", 1)
    /\ Len(tasks) = 2
    /\ tasks[1].scan_id = 1 /\ tasks[1].by = "scan" /\ tasks[1].pc = "done"
    /\ tasks[2].scan_id = 1 /\ tasks[2].by = "retry_scan" /\ tasks[2].pc = "done"

\* the attempt rules of do_scan, for task t: at most 3 invocations, and none
\* after one that exited 0
FollowsAttemptRules(t) ==
    /\ tasks[t].attempts <= MaxAttempts
    /\ (tasks[t].pc = "scan" /\ tasks[t].attempts > 0) => AllFailed(t)

\* the finalization rule of do_scan, for task t
FollowsFinalizationRule(t) ==
    Finalizes(t)
    => scans'[tasks[t].scan_id].status =
          IF tasks[t].output_status = Some(0) THEN "COMPLETE" ELSE "FAILED"

\* C17: retry of a COMPLETE or FAILED job saves the row with status PENDING
\* and the scanner name and parameters it was given, and dispatches, in the
\* same step as it returns, a task for the same job id that starts as the task
\* of submit starts; the executions of retry and of submit follow the same
\* attempt and finalization rules.
C17_RetryStep ==
    /\ \A r \in reqs \ reqs' :
          r.op = "retry_scan"
          => LET new == tasks'[Len(tasks')] IN
             /\ Unwrap(r.scan).status \in {"COMPLETE", "FAILED"}
             /\ Len(tasks') = Len(tasks) + 1
             /\ new = NewTask(r.scan_id, "retry_scan", new.name, new.parameters)
             /\ scans'[r.scan_id].status = "PENDING"
             /\ scans'[r.scan_id].scanner = new.name
             /\ scans'[r.scan_id].scan_parameters = new.parameters
             /\ Len(scans') = Len(scans)
             /\ response' = Resp("retry_scan", "id", r.scan_id)
    /\ \A t \in Tasks : FollowsFinalizationRule(t)

C17_RetryRules == \A t \in Tasks : FollowsAttemptRules(t)

C17_RetryPersistsThenDispatches == []C17_RetryRules /\ [][C17_RetryStep]_vars

\* C17 witness: a retry with another scanner and other parameters than
\* submit's has saved the row and dispatched its task, which has not started
C17_Witness ==
    \E t \in Tasks :
        /\ tasks[t].by = "retry_scan"
        /\ tasks[t].pc = "load"
        /\ tasks[t].name = "scanner2"
        /\ scans[tasks[t].scan_id].status = "PENDING"
        /\ scans[tasks[t].scan_id].scanner = "scanner2"
        /\ scans[tasks[t].scan_id].scan_parameters = tasks[t].parameters
        /\ tasks[t].parameters \notin ScanParameters
        /\ \E u \in Tasks : u < t /\ tasks[u].scan_id = tasks[t].scan_id /\ tasks[u].pc = "done"

\* the executions of job id that have not ended
InFlight(id) ==
    {t \in Tasks : tasks[t].scan_id = id /\ tasks[t].pc \notin {"done", "panicked"}}

\* C18: when retry is called for a job only while its status is COMPLETE or
\* FAILED, at most one execution of the job is in flight at any time.
C18_OneExecutionInFlight ==
    \A id \in Rows : Cardinality(InFlight(id)) <= 1

\* a step in which caller c begins a list_scanners call
ListBegins(c) ==
    /\ Free(c)
    /\ calls'[c].op = "list_scanners"
    /\ calls'[c].pc \in {"invoke", "read_cached"}

\* a step in which the list_scanners call of caller c ends, having taken the
\* refreshing branch
RefreshingListEnds(c) ==
    /\ calls[c].op = "list_scanners"
    /\ calls[c].pc \in {"invoke", "write_cached", "write_ts"}
    /\ calls'[c].pc \in {"returned", "panicked"}

C19_WithinTTLStep ==
    \A c \in Callers :
        /\ ListBegins(c) =>
              /\ (now - last_refreshed <= TTL) <=> calls'[c].pc = "read_cached"
              /\ UNCHANGED <<cached, last_refreshed, refreshes>>
        /\ calls[c].pc = "read_cached" /\ calls'[c].pc # "read_cached" =>
              /\ calls'[c].pc = "returned"
              /\ calls'[c].list = cached
              /\ calls'[c].invoked = 0
              /\ UNCHANGED <<cached, last_refreshed, refreshes>>

C19_AfterTTLStep ==
    \A c \in Callers :
        RefreshingListEnds(c) /\ calls[c].alone =>
            /\ calls'[c].pc = "returned"
            /\ calls'[c].invoked = 1
            /\ cached' = calls'[c].list
            /\ cached_gen' = calls'[c].gen_list
            /\ last_refreshed' = now
            /\ ts_gen' = calls'[c].gen_list

\* C19: a list_scanners call begun when now - last_refreshed <= TTL returns
\* the cached list, leaves cached and last_refreshed unchanged and does not run
\* the command; one begun when now - last_refreshed > TTL that no other call
\* overlaps runs the command exactly once and replaces cached and
\* last_refreshed.
C19_ListFollowsTTL == [][C19_WithinTTLStep /\ C19_AfterTTLStep]_vars

\* C20: cached and last_refreshed change as one unit: no list_scanners call
\* that returned the cached list has read a last_refreshed and a cached list
\* that stem from different refreshes.
C20_PairObservedAtomically ==
    \A c \in Callers :
        /\ calls[c].op = "list_scanners"
        /\ calls[c].pc = "returned"
        /\ calls[c].invoked = 0
        => calls[c].gen_ts = calls[c].gen_list

\* the pairs of positions at which a line shows the device pattern: DEVICE,
\* a name without a quote, QUOTE_IS_A
PatternAt(line) ==
    {p \in (1..Len(line)) \X (1..Len(line)) :
        /\ p[1] < p[2]
        /\ line[p[1]] = DEVICE
        /\ line[p[2]] = QUOTE_IS_A
        /\ \A k \in (p[1] + 1)..(p[2] - 1) : ~HasQuote(line[k])}

\* the device that a line showing the pattern names, read at its leftmost
\* occurrence
DeviceOf(line) ==
    LET p == CHOOSE p \in PatternAt(line) : \A q \in PatternAt(line) : p[1] <= q[1]
    IN ScannerInfo(SubSeq(line, p[1] + 1, p[2] - 1), SubSeq(line, p[2] + 1, Len(line)))

ShowsPattern(line) == PatternAt(line) # {}

\* the devices of the lines of an output that show the pattern, in their order
DevicesIn(stdout) ==
    LET lines == SelectSeq(stdout, ShowsPattern)
    IN [n \in 1..Len(lines) |-> DeviceOf(lines[n])]

C21_ParseStep ==
    \A c \in Callers :
        calls[c].pc = "invoke" /\ calls'[c].pc # "invoke" =>
            /\ calls'[c].pc = "write_cached"
            /\ calls'[c].list = DevicesIn(calls'[c].stdout)

C21_ReplaceStep ==
    \A c \in Callers :
        /\ calls[c].pc = "write_cached" /\ calls'[c].pc # "write_cached" =>
              /\ cached' = calls[c].list
              /\ calls'[c].pc = "write_ts"
        /\ calls[c].pc = "write_ts" /\ calls'[c].pc # "write_ts" =>
              /\ last_refreshed' = now
              /\ calls'[c].pc = "returned"
              /\ calls'[c].list = calls[c].list

\* C21: every force_list_scanners call, once the command has run, holds the
\* devices of the lines of the output that show the pattern (none when no line
\* does), writes that list to cached, then the current instant to
\* last_refreshed, and returns the list.
C21_RefreshReplacesWithParsedList == [][C21_ParseStep /\ C21_ReplaceStep]_vars

\* C22: a failure of the device-listing command (it cannot be spawned, its
\* output is not UTF-8) aborts no list_scanners or force_list_scanners call:
\* every call that has run the command goes on to return a list.
C22_ListingFailureIsNotFatal ==
    \A c \in Callers :
        calls[c].invoked > 0 => calls[c].pc \in {"write_cached", "write_ts", "returned"}

\* a step in which caller c makes a staleness call
StalenessCalled(c) ==
    /\ Free(c)
    /\ calls'[c].op = "staleness"
    /\ calls'[c] # calls[c]

C23_StalenessStep ==
    \A c \in Callers :
        StalenessCalled(c) =>
            /\ calls'[c].pc = "returned"
            /\ calls'[c].elapsed = AsMillis(now - last_refreshed)
            /\ calls'[c].invoked = 0
            /\ UNCHANGED <<cached, last_refreshed, refreshes, cached_gen, ts_gen>>

\* C23: a staleness call reports the time elapsed since last_refreshed, does
\* not run the device-listing command and leaves cached and last_refreshed
\* unchanged, whatever the age of the cache.
C23_StalenessOnlyReports == [][C23_StalenessStep]_vars

\* a staleness call has reported an age above the TTL for a cache that a
\* refresh had filled
C23_Witness ==
    \E c \in Callers :
        /\ calls[c].op = "staleness"
        /\ calls[c].elapsed > AsMillis(TTL)
        /\ ts_gen > 0
        /\ last_refreshed = calls[c].ts

(***************************************************************************)
(* Properties of migrate at startup.                                       *)
(***************************************************************************)
\* the process is off and its run of migrate had returned
LastRunCompleted == mig_pc = "stopped"

C24_SecondRunStep ==
    /\ LastRunCompleted /\ mig_pc' # "off" =>
          /\ mig_idx' = mig_idx
          /\ meta_rows' = meta_rows
          /\ UNCHANGED <<applied, backups>>
    /\ mig_pc \in {"backup", "done"} /\ mig_idx = NumMigrations /\ run_backups = {} =>
          UNCHANGED <<applied, backups, meta_rows, mig_idx, run_backups>>

\* C24: a run of migrate that starts after a run that has returned
\* executes no migration, copies no backup and leaves next_migration_idx
\* as it was.
C24_SecondRunChangesNothing == [][C24_SecondRunStep]_vars

\* next_migration_idx as the SELECT of migrations.rs:94-100 returns it
StoredIdx == NextMigrationIdx(meta_rows, TRUE)

C25_IdxInRange ==
    /\ StoredIdx \in 0..NumMigrations
    /\ mig_pc \in {"done", "stopped"} => meta_rows # <<>> /\ StoredIdx = NumMigrations

C25_IdxStep ==
    /\ StoredIdx' >= StoredIdx
    /\ meta_rows = <<>> /\ meta_rows' # <<>> => meta_rows' = <<0>>
    /\ StoredIdx' # StoredIdx =>
          /\ mig_pc = "update"
          /\ applied # <<>> /\ applied[Len(applied)] = mig_idx
          /\ StoredIdx = mig_idx
          /\ StoredIdx' = mig_idx + 1
    /\ mig_pc = "update" /\ mig_pc' = "backup" => StoredIdx' = mig_idx + 1

\* C25: next_migration_idx is inserted as 0 when there is no row, never
\* decreases, becomes k+1 exactly in the step after migration k was executed,
\* stays within 0..NumMigrations, and is NumMigrations once migrate has
\* returned.
C25_IdxMonotoneInRange == []C25_IdxInRange /\ [][C25_IdxStep]_vars

\* migrate has returned after a run that executed migrations and advanced
\* next_migration_idx from 0 to the length of the list
C25_Witness ==
    /\ mig_pc = "done"
    /\ run_backups = 0..(NumMigrations - 1)
    /\ StoredIdx = NumMigrations

C26_AbortStep ==
    /\ mig_pc = "apply" /\ ~Executes(mig_idx, applied) /\ mig_pc' # mig_pc =>
          mig_pc' = "off"
    /\ mig_pc \in {"backup", "apply", "update"} /\ mig_pc' = "off" =>
          UNCHANGED <<meta_rows, applied, backups, mig_idx, jobVars, devVars>>
    /\ mig_pc = "off" =>
          /\ mig_pc' \in {"off", "backup"}
          /\ UNCHANGED <<applied, backups, jobVars, devVars>>

\* C26: a backup, an execution or an index update that fails for migration k
\* ends the run of migrate: the store, the backups and next_migration_idx
\* stay as the failed step found them, and the process that was ended executes
\* no further migration and no job or catalog operation.
C26_FailureAbortsStartup == [][C26_AbortStep]_vars

\* the database has refused migration k after the run had copied its backup:
\* the process is off and next_migration_idx is still k
C26_Witness ==
    /\ mig_pc = "off"
    /\ mig_idx \in run_backups
    /\ ~Executes(mig_idx, applied)
    /\ StoredIdx = mig_idx

\* a step of a job or catalog operation: it changes the state of the jobs or
\* of the catalog, and is not the stop of the process
OperationRuns ==
    /\ <<jobVars, devVars>>' # <<jobVars, devVars>>
    /\ mig_pc' # "stopped"

C27_OperationStep ==
    OperationRuns =>
        /\ mig_pc = "done" /\ mig_pc' = "done"
        /\ meta_rows # <<>>
        /\ StoredIdx = NumMigrations
        /\ \A k \in 0..(NumMigrations - 1) : \E i \in 1..Len(applied) : applied[i] = k

\* C27: every step of a job or catalog operation is taken by a process whose
\* run of migrate has returned, on a store whose next_migration_idx is the
\* number of migrations and on which every migration has been executed.
C27_MigrateBeforeOperations == [][C27_OperationStep]_vars

\* a process that was started again after a crash of migrate has saved a job
\* and answered a catalog call
C27_Witness ==
    /\ mig_pc = "done"
    /\ faults > 0
    /\ Len(scans) > 0
    /\ calls[1].pc = "returned"

(***************************************************************************)
(* Properties of the handlers called with an id that names no record.      *)
(***************************************************************************)
\* the handler of op answers false and leaves all records as they are
Refused(op) ==
    /\ response' = Resp(op, "false", 0)
    /\ UNCHANGED <<scans, scan_groups, files, tasks, reqs>>

C28_MissingIdStep ==
    /\ \A scan_id \in ScanIds \ Rows :
          /\ \A rotation \in RotationArgs :
                RotateLoad(scan_id, rotation) => Refused("rotate_scan")
          /\ \A n \in CropArgs :
                CropLoad(scan_id, n) => Refused("crop_scan")
          /\ \A group_id \in GroupIds :
                AddScanToGroup(scan_id, group_id) => Refused("add_scan_to_group")
    /\ \A group_id \in GroupIds \ scan_groups :
          UpdateGroup(group_id) => Refused("update_group")

\* C28: rotate_scan, crop_scan and add_scan_to_group for a scan id without a
\* row, and update_group for a group id without a row, return false and
\* create or change no record.
C28_MissingIdReturnsFalse == [][C28_MissingIdStep]_vars

\* add_scan_to_group has answered false for a scan id without a row while a
\* job and a group exist
C28_Witness ==
    /\ response = Resp("add_scan_to_group", "false", 0)
    /\ Len(scans) = 1
    /\ scan_groups # {}
    /\ scans[1].scan_group_id = None

C29_RetryStep ==
    \A scan_id \in ScanIds \ Rows :
        RetryLoad(scan_id) =>
            /\ response'.op = "retry_scan"
            /\ response'.result \in {"false", "error"}
            /\ UNCHANGED <<scans, scan_groups, files, tasks, reqs>>

\* C29: retry_scan for a scan id without a row answers its caller with a
\* failure result, without a panic, and creates no record and dispatches no
\* task.
C29_RetryOfMissingIdIsReported == [][C29_RetryStep]_vars

(***************************************************************************)
(* Properties of the rotation.                                             *)
(***************************************************************************)
\* C30: the rotation of every row of scans is one of 0, 90, 180, 270.
C30_RotationIsQuarterTurn ==
    \A i \in Rows : scans[i].rotation \in {0, 90, 180, 270}

(***************************************************************************)
(* Properties of the backups and of the migration-state table.             *)
(***************************************************************************)
\* the migrations executed on a copy of the store
ExecutedOn(copy) == {copy.applied[i] : i \in 1..Len(copy.applied)}

\* C31: the backup tagged k holds a store on which migration k has not been
\* executed, also after a crash between the execution of k and the update of
\* next_migration_idx and the start of the next run.
C31_BackupIsPreMigration ==
    \A k \in 0..(NumMigrations - 1) :
        backups[k] # None => k \notin ExecutedOn(Unwrap(backups[k]))

\* C36: once a run of migrate has read next_migration_idx, the table
\* meta_migration_schema holds exactly one row, whatever the runs before.
C36_OneMigrationStateRow ==
    /\ Len(meta_rows) <= 1
    /\ mig_pc # "off" => Len(meta_rows) = 1

(***************************************************************************)
(* Properties of concurrent catalog calls.                                 *)
(***************************************************************************)
\* the list_scanners call of caller c has found the cache expired, has run
\* the command and has not returned yet
RefreshingAfterExpiry(c) ==
    /\ calls[c].op = "list_scanners"
    /\ calls[c].pc \in {"write_cached", "write_ts"}
    /\ calls[c].invoked = 1

\* C33: of the list_scanners calls that are in flight at once and have found
\* the same expired last_refreshed, at most one has run the command.
C33_OneInvocationPerExpiry ==
    \A c, d \in Callers :
        /\ c # d
        /\ RefreshingAfterExpiry(c)
        /\ RefreshingAfterExpiry(d)
        => calls[c].gen_ts # calls[d].gen_ts

(***************************************************************************)
(* Properties of the metadata of a job whose scan is in flight.            *)
(***************************************************************************)
\* task t saves the Scan it holds in this step: the path it has allocated, or
\* its final status
ExecutorSaves(t) ==
    /\ tasks[t].pc \in {"allocate", "save"}
    /\ tasks'[t].pc # tasks[t].pc

C32_ExecutorSaveStep ==
    \A t \in Tasks :
        ExecutorSaves(t) /\ tasks[t].scan_id \in Rows =>
            /\ scans'[tasks[t].scan_id].rotation = scans[tasks[t].scan_id].rotation
            /\ scans'[tasks[t].scan_id].crop_coordinates =
                  scans[tasks[t].scan_id].crop_coordinates

\* C32: the saves of the executor (of the allocated path, of the final
\* status) leave the persisted rotation and crop coordinates as rotate_scan
\* and crop_scan have written them.
C32_MetadataSurvivesExecution == [][C32_ExecutorSaveStep]_vars

\* C34: an add_scan_to_group that answers false leaves the rows of scans as
\* they are, and a scan that could be loaded before can be loaded after.
C34_RefusedGroupStep ==
    \A scan_id \in ScanIds, group_id \in GroupIds :
        AddScanToGroup(scan_id, group_id) /\ response'.result = "false" =>
            /\ scans' = scans
            /\ LoadOk(scans, scan_groups, scan_id)
                  => LoadOk(scans', scan_groups', scan_id)

C34_RefusedGroupLeavesScanLoadable == [][C34_RefusedGroupStep]_vars

\* a step of set_group: of add_scan_to_group, or of scan with a group id
SetsGroup ==
    \/ \E scan_id \in ScanIds, group_id \in GroupIds : AddScanToGroup(scan_id, group_id)
    \/ \E r \in reqs : r.op = "scan" /\ r.num # 0 /\ ScanSpawn(r)

C35_GroupStep ==
    \A i \in Rows :
        /\ scans'[i].scan_group_id # scans[i].scan_group_id => SetsGroup
        /\ scans[i].scan_group_id # None => scans'[i].scan_group_id # None

\* C35: the group reference of a row of scans changes in the steps of
\* set_group only, and is never cleared: no save of the executor, of
\* retry_scan, of rotate_scan or of crop_scan changes it.
C35_SaveKeepsGroup == [][C35_GroupStep]_vars

\* a job was put into a group while its scan was in flight: its task had
\* loaded it without a group, and has finalized it since
C35_Witness ==
    \E t \in Tasks :
        /\ tasks[t].pc = "done"
        /\ tasks[t].attempts > 0
        /\ scans[tasks[t].scan_id].status = "COMPLETE"
        /\ scans[tasks[t].scan_id].scan_group_id = Some(1)
        /\ scans[tasks[t].scan_id].rotation # 0
        /\ response.op = "rotate_scan"

(***************************************************************************)
(* AssetPath (asset_path.rs).  A path is the String self.0, modelled as    *)
(* the sequence of its characters, and the methods are computed with the   *)
(* string operations the code uses: split, rsplit_once, parse, format and  *)
(* replace.                                                                *)
(***************************************************************************)
MaxPathLen == 5
MaxPathCounter == 3

\* the characters the paths of the model are made of: a letter, a digit and
\* the three separators the methods look for
PathChars == {"a", "1", "_", ".", "/"}

\* i32::MAX
I32Max == 2147483647

Digits == <<"0", "1", "2", "3", "4", "5", "6", "7", "8", "9">>

IsDigit(ch) == \E d \in 0..9 : Digits[d + 1] = ch

DigitOf(ch) == CHOOSE d \in 0..9 : Digits[d + 1] = ch

Contains(s, ch) == \E i \in 1..Len(s) : s[i] = ch

\* str::split(ch): the pieces between the occurrences of ch, one piece at least
RECURSIVE Split(_, _)
Split(s, ch) ==
    IF ~Contains(s, ch)
    THEN <<s>>
    ELSE LET i == CHOOSE k \in 1..Len(s) :
                      s[k] = ch /\ \A j \in 1..(k - 1) : s[j] # ch
         IN  <<SubSeq(s, 1, i - 1)>> \o Split(SubSeq(s, i + 1, Len(s)), ch)

\* asset_path.rs:25,69  self.0.split('/').last().unwrap()
Filename(path) == Split(path, "/")[Len(Split(path, "/"))]

\* asset_path.rs:26  self.0.rsplit_once('/').map(|(dir, _)| dir).unwrap_or("")
DirPart(path) ==
    IF ~Contains(path, "/")
    THEN <<>>
    ELSE SubSeq(path, 1, Len(path) - Len(Filename(path)) - 1)

\* asset_path.rs:27-28,70-71  filename.split('.') and its first piece
Parts(path) == Split(Filename(path), ".")

FirstPart(path) == Parts(path)[1]

\* the digits of str::parse::<i32>: None when a character is not a digit or
\* the value does not fit
RECURSIVE ParseDigits(_, _)
ParseDigits(s, acc) ==
    IF s = <<>>
    THEN Some(acc)
    ELSE IF ~IsDigit(Head(s))
    THEN None
    ELSE IF acc > (I32Max - DigitOf(Head(s))) \div 10
    THEN None
    ELSE ParseDigits(Tail(s), acc * 10 + DigitOf(Head(s)))

\* str::parse::<i32>: an optional sign, then one digit at least
ParseI32(s) ==
    IF s = <<>>
    THEN None
    ELSE IF Head(s) = "+"
    THEN (IF Tail(s) = <<>> THEN None ELSE ParseDigits(Tail(s), 0))
    ELSE IF Head(s) = "-"
    THEN (IF Tail(s) = <<>> \/ ParseDigits(Tail(s), 0) = None
          THEN None
          ELSE Some(0 - Unwrap(ParseDigits(Tail(s), 0))))
    ELSE ParseDigits(s, 0)

RECURSIVE FormatNat(_)
FormatNat(n) ==
    IF n < 10
    THEN <<Digits[n + 1]>>
    ELSE Append(FormatNat(n \div 10), Digits[(n % 10) + 1])

\* i32::MIN as format! prints it
I32MinText == <<"-", "2", "1", "4", "7", "4", "8", "3", "6", "4", "8">>

\* format!("{}", n) of an i32
FormatI32(n) ==
    IF n = (0 - I32Max) - 1
    THEN I32MinText
    ELSE IF n < 0 THEN <<"-">> \o FormatNat(0 - n) ELSE FormatNat(n)

IsPrefixOf(p, s) == Len(p) <= Len(s) /\ SubSeq(s, 1, Len(p)) = p

\* str::replace(from, to) for a non-empty from: every occurrence, from the left
RECURSIVE Replace(_, _, _)
Replace(s, from, to) ==
    IF s = <<>>
    THEN <<>>
    ELSE IF IsPrefixOf(from, s)
    THEN to \o Replace(SubSeq(s, Len(from) + 1, Len(s)), from, to)
    ELSE <<Head(s)>> \o Replace(Tail(s), from, to)

\* asset_path.rs:73-87  the match on first_part.split('_'): the updated first
\* part, None for a panic.  suffix + 1 of i32::MAX panics where overflow is
\* checked and wraps to i32::MIN where it is not.
UpdatedFirstParts(first_part) ==
    LET name == Split(first_part, "_")
    IN  IF Len(name) = 1
        THEN {Some(name[1] \o <<"_", "1">>)}
        ELSE IF Len(name) > 2
        THEN {None}
        ELSE IF ParseI32(name[2]) = None
        THEN {None}
        ELSE IF Unwrap(ParseI32(name[2])) = I32Max
        THEN {None, Some(name[1] \o <<"_">> \o I32MinText)}
        ELSE {Some(name[1] \o <<"_">> \o FormatI32(Unwrap(ParseI32(name[2])) + 1))}

\* asset_path.rs:68-92  as_revised_path: the paths it can return, None for a
\* panic
AsRevisedPathOutcomes(path) ==
    {IF updated = None \/ Len(Parts(path)) < 2
     THEN None
     ELSE Some(Replace(path, Filename(path),
                       Unwrap(updated) \o <<".">> \o Parts(path)[2])) :
        updated \in UpdatedFirstParts(FirstPart(path))}

PNG == <<"p", "n", "g">>

\* asset_path.rs:29  parts.get(1).unwrap_or(&"png")
Extension(path) == IF Len(Parts(path)) >= 2 THEN Parts(path)[2] ELSE PNG

\* asset_path.rs:25-29  the locals get_next_available_path sets before its loop
Locals(path) ==
    [dir_part |-> DirPart(path),
     first_part |-> FirstPart(path),
     extension |-> Extension(path)]

\* asset_path.rs:34-48  next_filename for the value of counter
NextFilename(first_part, extension, n) ==
    IF Contains(first_part, "_")
    THEN IF Len(Split(first_part, "_")) = 2
         THEN IF ParseI32(Split(first_part, "_")[2]) # None
              THEN Split(first_part, "_")[1] \o <<"_">> \o FormatI32(n)
                     \o <<".">> \o extension
              ELSE first_part \o <<"_", "1", ".">> \o extension
         ELSE first_part \o <<"_", "1", ".">> \o extension
    ELSE first_part \o <<"_", "1", ".">> \o extension

\* asset_path.rs:50-54  next_path
NextPath(locals, n) ==
    IF locals.dir_part = <<>>
    THEN NextFilename(locals.first_part, locals.extension, n)
    ELSE locals.dir_part \o <<"/">>
           \o NextFilename(locals.first_part, locals.extension, n)

\* a path whose numeric suffix is i32::MAX
MaxSuffixPath == <<"a", "_", "2", "1", "4", "7", "4", "8", "3", "6", "4", "7", ".", "a">>

PathInputs == UNION {[1..n -> PathChars] : n \in 0..MaxPathLen} \cup {MaxSuffixPath}

\* asset_path.rs:68-92  a call of as_revised_path
AsRevisedPath ==
    /\ path_pc = "idle"
    /\ \E outcome \in AsRevisedPathOutcomes(asset) :
          /\ next_path' = outcome
          /\ path_pc' = IF outcome = None THEN "panicked" ELSE "revised"
    /\ UNCHANGED <<asset, disk, path_locals, path_counter, notPath>>

\* asset_path.rs:24-31  get_next_available_path up to the loop
GetNextStart ==
    /\ path_pc = "idle"
    /\ path_pc' = "loop"
    /\ path_locals' = Some(Locals(asset))
    /\ path_counter' = 1
    /\ UNCHANGED <<asset, disk, next_path, notPath>>

\* asset_path.rs:32-62  one round of the loop.  The counter is followed up to
\* MaxPathCounter; a disk holds fewer files than that.
GetNextTry ==
    /\ path_pc = "loop"
    /\ IF NextPath(Unwrap(path_locals), path_counter) \notin disk
       THEN /\ path_pc' = "returned"
            /\ next_path' = Some(NextPath(Unwrap(path_locals), path_counter))
            /\ UNCHANGED path_counter
       ELSE /\ path_counter < MaxPathCounter
            /\ path_counter' = path_counter + 1
            /\ UNCHANGED <<path_pc, next_path>>
    /\ UNCHANGED <<asset, disk, path_locals, notPath>>

\* the files the rounds of the loop can meet, fewer than MaxPathCounter
PathDisks(path) ==
    SUBSET {NextPath(Locals(path), n) : n \in 1..(MaxPathCounter - 1)}

PathInit ==
    /\ JobInit
    /\ Migrated
    /\ DevInit
    /\ asset \in PathInputs
    /\ disk \in PathDisks(asset)
    /\ path_pc = "idle"
    /\ path_locals = None
    /\ path_counter = 0
    /\ next_path = None

PathNext ==
    \/ AsRevisedPath
    \/ GetNextStart
    \/ GetNextTry

SpecPaths == PathInit /\ [][PathNext]_vars

\* the loop of get_next_available_path is not suspended: it has no await
SpecPathsFair == SpecPaths /\ WF_vars(GetNextTry)

\* the filename with its first part taken off: the extension and its dot
C37_Extension == SubSeq(Filename(asset), Len(FirstPart(asset)) + 1, Len(Filename(asset)))

\* the path with its filename taken off: the directory and its slash
C37_Directory == SubSeq(asset, 1, Len(asset) - Len(Filename(asset)))

C37_Stem == Split(FirstPart(asset), "_")

\* the successor of the suffix, in digits
C37_Successor ==
    IF Unwrap(ParseI32(C37_Stem[2])) = I32Max
    THEN <<"2", "1", "4", "7", "4", "8", "3", "6", "4", "8">>
    ELSE FormatI32(Unwrap(ParseI32(C37_Stem[2])) + 1)

\* C37: as_revised_path gives "<stem>_1" for a stem without '_', gives
\* "<prefix>_<n+1>" for a stem "<prefix>_<n>" with an integer n, keeps the
\* directory and the extension, and panics for a stem of more than two
\* components.
C37_RevisedPath ==
    path_pc \in {"revised", "panicked"} =>
        /\ Len(C37_Stem) > 2 => path_pc = "panicked"
        /\ Len(C37_Stem) = 1 =>
              next_path = Some(C37_Directory \o FirstPart(asset) \o <<"_", "1">>
                               \o C37_Extension)
        /\ Len(C37_Stem) = 2 /\ ParseI32(C37_Stem[2]) # None =>
              next_path = Some(C37_Directory \o C37_Stem[1] \o <<"_">>
                               \o C37_Successor \o C37_Extension)

\* C38: every call of get_next_available_path returns, and the path it
\* returns does not exist on the disk.
C38_NextPathTerminates ==
    (path_pc = "loop") ~> (path_pc = "returned" /\ Unwrap(next_path) \notin disk)

====
